---- MODULE Spec2Model ----
(***************************************************************************)
(* Model of korp-mono-rs: the parallel conversion pipeline of main.rs      *)
(* (rayon par_iter stage chain, mpsc status channel, printer/collector     *)
(* thread, status-file writing) together with the path derivation it uses, *)
(* and the functions of the document transform applied on their own:       *)
(* parse_year, process_sentence and From<ParsedAnalysedDocument>.          *)
(***************************************************************************)
EXTENDS Integers, Sequences, FiniteSets, TLC

(***************************************************************************)
(* Bounds of the model.                                                    *)
(***************************************************************************)
\* number of files collect_files discovers
NumFiles == 2
\* sizes of the rayon worker pool that are explored: one worker, several
PoolSizes == {1, 2}

(***************************************************************************)
(* Paths.  A path is its directory components plus the stem and the        *)
(* extension of its file name.                                             *)
(***************************************************************************)
Stems == <<"a", "b", "c", "d">>
SubDirs == <<"d1", "d2", "d1", "d2">>

\* the i-th file found under the input directory (ends with ".xml")
collect_files(i) ==
    [components |-> <<"corpus-abc", "analysed", SubDirs[i]>>,
     stem |-> Stems[i], extension |-> "xml"]

Files == {collect_files(i) : i \in 1..NumFiles}

nfiles == Cardinality(Files)

Reverse(s) == [i \in 1..Len(s) |-> s[Len(s) + 1 - i]]

\* the loop of From<&AnalysedFilePath> over the reversed components
KorpMonoComponents(components) ==
    LET rev == Reverse(components)
        out == [i \in 1..Len(rev) |->
                   IF rev[i] = "analysed" THEN "korp_mono" ELSE rev[i]]
    IN  Reverse(out)

KorpMonoPath(p) == [p EXCEPT !.components = KorpMonoComponents(p.components)]

\* KorpMonoPath::parent
parent(p) == p.components

\* Path::with_extension
with_extension(p, e) == [p EXCEPT !.extension = e]

LogPath(p) == with_extension(KorpMonoPath(p), "log")

OutPaths == {KorpMonoPath(p) : p \in Files}
LogPaths == {LogPath(p) : p \in Files}
OutDirs == {parent(KorpMonoPath(p)) : p \in Files}

(***************************************************************************)
(* Documents.                                                              *)
(***************************************************************************)
\* what fst_analysis_parser::parse_sentences can return for a blob
ParseResults == {"Ok", "Err"}

\* the sentences_builder closure: parse_result.ok()? gives Some(sents), None
sentences_builder(parse_result) ==
    IF parse_result = "Ok" THEN "Some" ELSE "None"

\* TryFrom<UnparsedAnalysedDocument> for ParsedAnalysedDocument: the builder
\* stores the Option and the conversion returns Ok in every case
try_from(parse_result) ==
    [ok |-> TRUE, sentences |-> sentences_builder(parse_result)]

\* From<ParsedAnalysedDocument> for KorpMonoXmlFile: the sentence list of
\* the output document (None => vec![])
KorpMonoXmlFile(sentences) ==
    IF sentences = "None" THEN "text:no-sentences" ELSE "text:sentences"

(***************************************************************************)
(* Status messages.                                                        *)
(***************************************************************************)
StatusMessage(path, kind, result) ==
    [path |-> path, kind |-> kind, result |-> result]

\* impl Display for StatusMessage (the duration is left out of the text)
Display(msg) ==
    CASE msg.kind = "Read" ->
            IF msg.result = "Ok" THEN "Read file in" ELSE "Unable to read"
      [] msg.kind = "ParseXml" ->
            IF msg.result = "Ok" THEN "Parsed XML in" ELSE "XML parse error"
      [] msg.kind = "ParseAnalyses" ->
            IF msg.result = "Ok" THEN "Parsed analyses in" ELSE "Parse analysis"
      [] msg.kind = "GenericError" ->
            CASE msg.result = "mkdir" -> "Generic error: cannot create dir"
              [] msg.result = "open" -> "Generic error: Can't open"
              [] OTHER -> "Generic error: Can't write to file"

VARIABLES
    pool,           \* size of the rayon worker pool of this run
    body,           \* body[p]: sentences of the ParsedBody ("unparsed" before)
    stage,          \* stage[p]: how far the pipeline of p has come
    failedAt,       \* failedAt[p]: the stage that failed, or "none"
    sent,           \* sent[p]: the messages sent for p, in sending order
    chan,           \* the mpsc channel (tx -> rx), unbounded FIFO
    txAlive,        \* the main thread still holds tx
    panicked,       \* a q_send_or_panic! found the receiver gone
    collector,      \* "running" or "returned" (the printer thread)
    file_statuses,  \* file_statuses[p]: accumulated lines (<<>>: no entry)
    nok,
    nerr,
    mainPc,         \* "par_iter", "join", "logs"
    pending,        \* entries of file_statuses still to be written out
    dirs,           \* dirs[d]: "present", "missing", or "unknown" while no
                    \* call of the run has looked at the directory d
    outFile,        \* outFile[q]: content of the output file at q
    logFile,        \* logFile[q]: lines of the status file at q (<<>>: none)
    faulted,        \* an operation of this run has failed (a file that cannot
                    \* be read, an XML envelope or a blob that cannot be
                    \* parsed, a refused file-system call); the runs that are
                    \* explored hold at most one such operation
    fcall           \* a function applied on its own: [call, arg, ret]

vars == <<pool, body, stage, failedAt, sent, chan, txAlive, panicked,
          collector, file_statuses, nok, nerr, mainPc, pending, dirs,
          outFile, logFile, faulted, fcall>>

\* the variables of a function applied on its own
fvars == <<fcall>>

\* "idle" (no function is applied), "pending", "returned" or "panicked"
call == fcall.call
\* the argument: [fn |-> name, input |-> value]
arg == fcall.arg
\* the return value once call = "returned"
ret == fcall.ret

\* the variables of a run of main
runvars == <<pool, body, stage, failedAt, sent, chan, txAlive, panicked,
             collector, file_statuses, nok, nerr, mainPc, pending, dirs,
             outFile, logFile, faulted>>

Terminal == {"Persisted", "Failed"}

Active == {p \in Files : stage[p] \notin ({"Discovered"} \cup Terminal)}

\* the state of main before the stage chain starts
InitRun ==
    /\ pool \in PoolSizes
    /\ body = [p \in Files |-> "unparsed"]
    /\ stage = [p \in Files |-> "Discovered"]
    /\ failedAt = [p \in Files |-> "none"]
    /\ sent = [p \in Files |-> <<>>]
    /\ chan = <<>>
    /\ txAlive = TRUE
    /\ panicked = FALSE
    /\ collector = "running"
    /\ file_statuses = [p \in Files |-> <<>>]
    /\ nok = 0
    /\ nerr = 0
    /\ mainPc = "par_iter"
    /\ pending = {}
    /\ dirs = [d \in OutDirs |-> "unknown"]
    /\ outFile = [q \in OutPaths |-> "absent"]
    /\ logFile = [q \in LogPaths |-> <<>>]
    /\ faulted = FALSE

Init ==
    /\ InitRun
    /\ fcall = [call |-> "idle", arg |-> [fn |-> "none"], ret |-> <<>>]

(***************************************************************************)
(* Sending on the channel.                                                 *)
(***************************************************************************)
\* mutant of send: the newest message overtakes the waiting ones
send_front(queue, msg) == <<msg>> \o queue

\* mpsc::Sender::send: enqueue at the back
send(queue, msg) == Append(queue, msg)

\* q_send_or_panic!: send, panic when the receiver has been dropped
q_send_or_panic(msg) ==
    IF collector = "returned"
    THEN /\ panicked' = TRUE
         /\ UNCHANGED <<chan, sent>>
    ELSE /\ chan' = send(chan, msg)
         /\ sent' = [sent EXCEPT ![msg.path] = Append(@, msg)]
         /\ UNCHANGED panicked

\* let _ = queue.send(..): a failed send is ignored
send_ignore(msg) ==
    /\ IF collector = "returned"
       THEN UNCHANGED <<chan, sent>>
       ELSE /\ chan' = send(chan, msg)
            /\ sent' = [sent EXCEPT ![msg.path] = Append(@, msg)]
    /\ UNCHANGED panicked

Advance(p, to) ==
    /\ stage' = [stage EXCEPT ![p] = to]
    /\ UNCHANGED failedAt

Fail(p, at) ==
    /\ stage' = [stage EXCEPT ![p] = "Failed"]
    /\ failedAt' = [failedAt EXCEPT ![p] = at]

Running == mainPc = "par_iter" /\ ~panicked

(***************************************************************************)
(* The stage chain of main, one file at a time per worker.                 *)
(***************************************************************************)
\* mutant of read_to_string: the read result is unwrapped, an unreadable
\* file panics the worker instead of being reported
read_to_string_unwrap(p) ==
    /\ Running
    /\ stage[p] = "Discovered"
    /\ Cardinality(Active) < pool
    /\ \E res \in {"Ok", "Err"} :
         /\ res = "Err" => ~faulted
         /\ faulted' = (faulted \/ res = "Err")
         /\ IF res = "Ok"
            THEN /\ q_send_or_panic(StatusMessage(p, "Read", "Ok"))
                 /\ Advance(p, "Loaded")
            ELSE /\ panicked' = TRUE
                 /\ Fail(p, "load")
                 /\ UNCHANGED <<chan, sent>>
    /\ UNCHANGED <<pool, body, txAlive, collector, file_statuses, nok, nerr,
                   mainPc, pending, dirs, outFile, logFile>>
    /\ UNCHANGED fvars

read_to_string(p) ==
    /\ Running
    /\ stage[p] = "Discovered"
    /\ Cardinality(Active) < pool
    /\ \E res \in {"Ok", "Err"} :
         /\ res = "Err" => ~faulted
         /\ faulted' = (faulted \/ res = "Err")
         /\ IF res = "Ok"
            THEN /\ q_send_or_panic(StatusMessage(p, "Read", "Ok"))
                 /\ Advance(p, "Loaded")
            ELSE /\ q_send_or_panic(StatusMessage(p, "Read", "Err"))
                 /\ Fail(p, "load")
    /\ UNCHANGED <<pool, body, txAlive, collector, file_statuses, nok, nerr,
                   mainPc, pending, dirs, outFile, logFile>>
    /\ UNCHANGED fvars

parse_xml(p) ==
    /\ Running
    /\ stage[p] = "Loaded"
    /\ \E res \in {"Ok", "Err"} :
         /\ res = "Err" => ~faulted
         /\ faulted' = (faulted \/ res = "Err")
         /\ IF res = "Ok"
            THEN /\ q_send_or_panic(StatusMessage(p, "ParseXml", "Ok"))
                 /\ Advance(p, "Decoded")
            ELSE /\ q_send_or_panic(StatusMessage(p, "ParseXml", "Err"))
                 /\ Fail(p, "decode")
    /\ UNCHANGED <<pool, body, txAlive, collector, file_statuses, nok, nerr,
                   mainPc, pending, dirs, outFile, logFile>>
    /\ UNCHANGED fvars

parse_analyses(p) ==
    /\ Running
    /\ stage[p] = "Decoded"
    /\ \E parse_result \in ParseResults :
         LET res == try_from(parse_result) IN
         /\ parse_result = "Err" => ~faulted
         /\ faulted' = (faulted \/ parse_result = "Err")
         /\ body' = [body EXCEPT ![p] = res.sentences]
         /\ IF res.ok
            THEN /\ q_send_or_panic(StatusMessage(p, "ParseAnalyses", "Ok"))
                 /\ Advance(p, "AnalysisParsed")
            ELSE /\ q_send_or_panic(StatusMessage(p, "ParseAnalyses", "Err"))
                 /\ Fail(p, "parse")
    /\ UNCHANGED <<pool, txAlive, collector, file_statuses, nok, nerr,
                   mainPc, pending, dirs, outFile, logFile>>
    /\ UNCHANGED fvars

\* builds the KorpMonoXmlFile; measures dur but sends nothing
convert_document(p) ==
    /\ Running
    /\ stage[p] = "AnalysisParsed"
    /\ Advance(p, "Transformed")
    /\ UNCHANGED <<pool, body, sent, chan, txAlive, panicked, collector,
                   file_statuses, nok, nerr, mainPc, pending, dirs, outFile,
                   logFile, faulted>>
    /\ UNCHANGED fvars

\* what the file system does to the persist closure: "ok", or the call that
\* fails (create_dir_all, open, to_utf8_io_writer)
PersistOutcomes == {"ok", "mkdir", "open", "write"}

\* the persist closure of the stage chain: create_dir_all, open with
\* create/write/truncate, to_utf8_io_writer
persist(p) ==
    /\ Running
    /\ stage[p] = "Transformed"
    /\ \E io \in PersistOutcomes :
         LET out == KorpMonoPath(p) IN
         /\ io # "ok" => ~faulted
         /\ faulted' = (faulted \/ io # "ok")
         /\ dirs' = IF io = "mkdir" THEN dirs
                    ELSE [dirs EXCEPT ![parent(out)] = "present"]
         /\ outFile' = CASE io = "ok" ->
                              [outFile EXCEPT ![out] = KorpMonoXmlFile(body[p])]
                         [] io = "write" -> [outFile EXCEPT ![out] = "partial"]
                         [] OTHER -> outFile
         /\ CASE io = "ok" ->
                   /\ Advance(p, "Persisted")
                   /\ UNCHANGED <<chan, sent, panicked>>
              [] io = "mkdir" ->
                   /\ send_ignore(StatusMessage(p, "GenericError", "mkdir"))
                   /\ Fail(p, "mkdir")
              [] io = "open" ->
                   /\ q_send_or_panic(StatusMessage(p, "GenericError", "open"))
                   /\ Fail(p, "open")
              [] io = "write" ->
                   /\ q_send_or_panic(StatusMessage(p, "GenericError", "write"))
                   /\ Fail(p, "encode")
    /\ UNCHANGED <<pool, body, txAlive, collector, file_statuses, nok, nerr,
                   mainPc, pending, logFile>>
    /\ UNCHANGED fvars

(***************************************************************************)
(* The printer thread (collector).                                         *)
(***************************************************************************)
\* mutant of entry_push: insert replaces what the entry held
entry_insert(statuses, path, line) ==
    [statuses EXCEPT ![path] = <<line>>]

\* file_statuses.entry(path).and_modify(push_str).or_insert_with(..)
entry_push(statuses, path, line) ==
    [statuses EXCEPT ![path] = Append(@, line)]

\* mutant of collector_recv: a Read success is counted as well
collector_recv_counts_read ==
    /\ collector = "running"
    /\ chan # <<>>
    /\ LET msg == Head(chan) IN
         /\ chan' = Tail(chan)
         /\ file_statuses' = entry_push(file_statuses, msg.path, Display(msg))
         /\ nok' = IF \/ msg.kind = "ParseAnalyses"
                      \/ msg.kind = "Read" /\ msg.result = "Ok"
                   THEN nok + 1 ELSE nok
         /\ nerr' = IF msg.kind \in {"Read", "ParseXml"} /\ msg.result = "Err"
                    THEN nerr + 1 ELSE nerr
    /\ UNCHANGED <<pool, body, stage, failedAt, sent, txAlive, panicked,
                   collector, mainPc, pending, dirs, outFile, logFile,
                   faulted>>
    /\ UNCHANGED fvars

\* one turn of the loop with rx.recv() = Ok(msg)
collector_recv ==
    /\ collector = "running"
    /\ chan # <<>>
    /\ LET msg == Head(chan) IN
         /\ chan' = Tail(chan)
         /\ file_statuses' = entry_push(file_statuses, msg.path, Display(msg))
         /\ nok' = IF msg.kind = "ParseAnalyses" THEN nok + 1 ELSE nok
         /\ nerr' = IF msg.kind \in {"Read", "ParseXml"} /\ msg.result = "Err"
                    THEN nerr + 1 ELSE nerr
    /\ UNCHANGED <<pool, body, stage, failedAt, sent, txAlive, panicked,
                   collector, mainPc, pending, dirs, outFile, logFile,
                   faulted>>
    /\ UNCHANGED fvars

\* rx.recv() = Err(_): the queue is empty and every sender is dropped
collector_break ==
    /\ collector = "running"
    /\ chan = <<>>
    /\ ~txAlive
    /\ collector' = "returned"
    /\ UNCHANGED <<pool, body, stage, failedAt, sent, chan, txAlive,
                   panicked, file_statuses, nok, nerr, mainPc, pending, dirs,
                   outFile, logFile, faulted>>
    /\ UNCHANGED fvars

(***************************************************************************)
(* The main thread after the stage chain.                                  *)
(***************************************************************************)
\* mutant of drop_tx: main goes on to the join and keeps its sender
drop_tx_forgotten ==
    /\ Running
    /\ \A p \in Files : stage[p] \in Terminal
    /\ mainPc' = "join"
    /\ UNCHANGED <<pool, body, stage, failedAt, sent, chan, txAlive, panicked,
                   collector, file_statuses, nok, nerr, pending, dirs,
                   outFile, logFile, faulted>>
    /\ UNCHANGED fvars

\* .collect() has returned; drop(tx)
drop_tx ==
    /\ Running
    /\ \A p \in Files : stage[p] \in Terminal
    /\ txAlive' = FALSE
    /\ mainPc' = "join"
    /\ UNCHANGED <<pool, body, stage, failedAt, sent, chan, panicked,
                   collector, file_statuses, nok, nerr, pending, dirs,
                   outFile, logFile, faulted>>
    /\ UNCHANGED fvars

\* jh.join(): takes the map the printer thread returned
join ==
    /\ mainPc = "join"
    /\ collector = "returned"
    /\ mainPc' = "logs"
    /\ pending' = {p \in Files : file_statuses[p] # <<>>}
    /\ UNCHANGED <<pool, body, stage, failedAt, sent, chan, txAlive,
                   panicked, collector, file_statuses, nok, nerr, dirs,
                   outFile, logFile, faulted>>
    /\ UNCHANGED fvars

\* mutant of fs_write: the file is opened without create, only a file that
\* is already there is written
fs_write_existing(files, parentExists, q, text) ==
    IF parentExists /\ files[q] # <<>> THEN [files EXCEPT ![q] = text]
    ELSE files

\* std::fs::write creates the file but no directory: it fails when the
\* parent directory does not exist
fs_write(files, parentExists, q, text) ==
    IF parentExists THEN [files EXCEPT ![q] = text] ELSE files

\* one turn of "write out all status files": let _ = std::fs::write(..).
\* A directory that no persist closure created is there only if it existed
\* before the run.
write_status_file(p) ==
    /\ mainPc = "logs"
    /\ p \in pending
    /\ pending' = pending \ {p}
    /\ \E existed \in BOOLEAN :
         LET d == parent(LogPath(p)) IN
         /\ dirs[d] # "unknown" => existed = (dirs[d] = "present")
         /\ dirs' = [dirs EXCEPT ![d] = IF existed THEN "present" ELSE "missing"]
         /\ logFile' = fs_write(logFile, existed, LogPath(p), file_statuses[p])
    /\ UNCHANGED <<pool, body, stage, failedAt, sent, chan, txAlive,
                   panicked, collector, file_statuses, nok, nerr, mainPc,
                   outFile, faulted>>
    /\ UNCHANGED fvars

Next ==
    \/ \E p \in Files : read_to_string(p)
    \/ \E p \in Files : parse_xml(p)
    \/ \E p \in Files : parse_analyses(p)
    \/ \E p \in Files : convert_document(p)
    \/ \E p \in Files : persist(p)
    \/ collector_recv
    \/ collector_break
    \/ drop_tx
    \/ join
    \/ \E p \in Files : write_status_file(p)

Spec == Init /\ [][Next]_vars

\* the threads of the process keep running: rayon runs every task, the
\* printer thread loops on recv, main goes on after collect / join
FairSpec == Spec /\ WF_vars(Next)

\* main has written out the status files: the run is over
RunEnded == mainPc = "logs" /\ pending = {}

(***************************************************************************)
(* Helpers of the properties.                                              *)
(***************************************************************************)
Lines(msgs) == [i \in 1..Len(msgs) |-> Display(msgs[i])]

\* the messages of p that are still in the channel, in channel order
InChannel(p) == SelectSeq(chan, LAMBDA m : m.path = p)

IsFailure(msg) == msg.kind = "GenericError" \/ msg.result = "Err"

Failures(p) == SelectSeq(sent[p], IsFailure)

\* position of a status line in the stage order of one file
LineRank(line) ==
    CASE line \in {"Read file in", "Unable to read"} -> 1
      [] line \in {"Parsed XML in", "XML parse error"} -> 2
      [] line \in {"Parsed analyses in", "Parse analysis"} -> 3
      [] OTHER -> 4

StrictlyIncreasing(ranks) ==
    \A i \in 1..Len(ranks) : \A j \in 1..Len(ranks) :
        i < j => ranks[i] < ranks[j]

\* a stage of p has failed: a failure was recorded, or the blob of p was
\* not parsable
StageFailed(p) == failedAt[p] # "none" \/ body[p] = "None"

(***************************************************************************)
(* C1: for every file and every stage, when the stage fails exactly one    *)
(* failure event with the file's path is emitted, no later stage runs for  *)
(* the file and no later event is emitted for it (the failure is the last  *)
(* message of the file and the file rests in Failed).                      *)
(***************************************************************************)
C1_StageFailureStopsFile ==
    \A p \in Files :
        StageFailed(p) =>
            /\ stage[p] = "Failed"
            /\ Len(Failures(p)) = 1
            /\ IsFailure(sent[p][Len(sent[p])])
            /\ sent[p][Len(sent[p])].path = p

(***************************************************************************)
(* C2: a file that cannot be read gets no output file, the log the         *)
(* collector returns for it holds exactly the line classified as           *)
(* unreadable, and the failure stops no other file: in every interleaving  *)
(* each other file is in its terminal state (Persisted or Failed), or can  *)
(* take its next stage, or waits for a free worker of the pool.            *)
(***************************************************************************)
Unreadable(p) == failedAt[p] = "load"

\* the next stage of the chain for the file p
StageStep(p) ==
    \/ read_to_string(p)
    \/ parse_xml(p)
    \/ parse_analyses(p)
    \/ convert_document(p)
    \/ persist(p)

C3_EventsInStageOrder ==
    \A p \in Files :
        LET onChannel == file_statuses[p] \o Lines(InChannel(p))
        IN  StrictlyIncreasing([i \in 1..Len(onChannel) |->
                                   LineRank(onChannel[i])])

\* two events of one file wait in the channel with an event of another
\* file between them
C3_Witness ==
    \E i \in 1..Len(chan) : \E j \in 1..Len(chan) : \E k \in 1..Len(chan) :
        /\ i < j /\ j < k
        /\ chan[i].path = chan[k].path
        /\ chan[j].path # chan[i].path

(***************************************************************************)
(* C4: when every file is well-formed and the file system refuses nothing  *)
(* (no operation of the run fails), after the run every output file and    *)
(* every log file exists, with the same content whatever the size of the   *)
(* worker pool and the interleaving of the workers.                        *)
(***************************************************************************)
C4_AllOutputsForEveryPoolSize ==
    (RunEnded /\ ~faulted) =>
        /\ Cardinality(OutPaths) = nfiles
        /\ Cardinality(LogPaths) = nfiles
        /\ \A p \in Files :
             /\ outFile[KorpMonoPath(p)] = "text:sentences"
             /\ logFile[LogPath(p)] =
                    <<"Read file in", "Parsed XML in", "Parsed analyses in">>

C4_Witness ==
    /\ RunEnded
    /\ faulted = FALSE
    /\ pool > 1
    /\ \A d \in OutDirs : dirs[d] = "present"
    /\ \A q \in OutPaths : outFile[q] # "absent"

(***************************************************************************)
(* C5: the collector returns only when every sender is dropped and the     *)
(* channel is drained, no send ever finds the receiver gone, and in every  *)
(* run the collector leaves its loop and the join on it completes: no      *)
(* worker, channel or collector state blocks for ever.                     *)
(***************************************************************************)
C5_CollectorTerminates ==
    /\ [](~panicked)
    /\ [](collector = "returned" => ~txAlive /\ chan = <<>>)
    /\ <>(collector = "returned" /\ mainPc = "logs")

C5_Witness ==
    /\ mainPc = "logs"
    /\ collector = "returned"
    /\ \A p \in Files : sent[p] # <<>>

(***************************************************************************)
(* C6: no event is lost, duplicated or attributed to another file: at any  *)
(* time the lines accumulated for a path followed by the lines of its      *)
(* messages still in the channel are the lines of the messages sent for    *)
(* that path, in sending order, and when the collector has returned the    *)
(* text of each path is exactly those lines; a step of one file's pipeline *)
(* changes nothing of another file's pipeline.                             *)
(***************************************************************************)
C6_NoEventLostOrMisattributed ==
    /\ [](\A p \in Files :
            file_statuses[p] \o Lines(InChannel(p)) = Lines(sent[p]))
    /\ [](collector = "returned"
            => \A p \in Files : file_statuses[p] = Lines(sent[p]))
    /\ [][\A p \in Files : \A q \in Files \ {p} :
            stage'[p] # stage[p] =>
                /\ stage'[q] = stage[q]
                /\ failedAt'[q] = failedAt[q]
                /\ body'[q] = body[q]
                /\ sent'[q] = sent[q]
                /\ outFile'[KorpMonoPath(q)] = outFile[KorpMonoPath(q)]]_vars

C6_Witness ==
    /\ collector = "returned"
    /\ \E p \in Files : \E q \in Files \ {p} :
         /\ Len(file_statuses[p]) = 4
         /\ Len(file_statuses[q]) = 3

(***************************************************************************)
(* C7: when the collector has returned, the succeeded counter is the       *)
(* number of files whose output was persisted and the failed counter is    *)
(* the number of files that failed at any stage.                           *)
(***************************************************************************)
C7_CountersMatchOutcomes ==
    collector = "returned" =>
        /\ nok = Cardinality({p \in Files : stage[p] = "Persisted"})
        /\ nerr = Cardinality({p \in Files : stage[p] = "Failed"})

(***************************************************************************)
(* C8: a file whose analysis blob cannot be parsed ends as a failure of    *)
(* the parse stage: its last message is the ParseAnalyses failure, it      *)
(* never reaches the transform or persist stage, and no output file is     *)
(* written for it.                                                         *)
(***************************************************************************)
C8_UnparsableBlobIsFullFailure ==
    \A p \in Files :
        (body[p] = "None" /\ stage[p] \in Terminal) =>
            /\ failedAt[p] = "parse"
            /\ sent[p][Len(sent[p])] = StatusMessage(p, "ParseAnalyses", "Err")
            /\ outFile[KorpMonoPath(p)] = "absent"

(***************************************************************************)
(* C9: when the stage chain is over every file is Persisted or Failed, and *)
(* a file is Persisted exactly when its event stream holds the success     *)
(* events of Read, ParseXml, ParseAnalyses and a Persisted success event.  *)
(***************************************************************************)
HasSuccess(p, kind) ==
    \E i \in 1..Len(sent[p]) : sent[p][i] = StatusMessage(p, kind, "Ok")

C9_TerminalStateReadFromEvents ==
    \A p \in Files :
        /\ mainPc # "par_iter" => stage[p] \in Terminal
        /\ stage[p] = "Persisted" <=>
               /\ HasSuccess(p, "Read")
               /\ HasSuccess(p, "ParseXml")
               /\ HasSuccess(p, "ParseAnalyses")
               /\ HasSuccess(p, "Persisted")

(***************************************************************************)
(* C10: when the run is over, the log path of every path that accumulated  *)
(* at least one event holds the accumulated text of that path.             *)
(***************************************************************************)
C10_EveryAccumulatedLogWritten ==
    RunEnded =>
        \A p \in Files :
            file_statuses[p] # <<>> => logFile[LogPath(p)] = file_statuses[p]

(***************************************************************************)
(* Strings.  A string is the sequence of its characters; Option<T> is      *)
(* None or Some(v).                                                        *)
(***************************************************************************)
None == <<>>
Some(v) == <<v>>

Digits == <<"0", "1", "2", "3", "4", "5", "6", "7", "8", "9">>

\* the UTF-8 encoding of a character: one byte for ASCII, two for e-acute
\* (written "U+00E9"; the arrows of the function labels are "U+2192" and
\* "U+2190")
utf8(ch) == IF ch = "U+00E9" THEN <<"0xC3", "0xA9">> ELSE <<ch>>

RECURSIVE as_bytes(_)
\* str::as_bytes
as_bytes(str) ==
    IF str = <<>> THEN <<>> ELSE utf8(Head(str)) \o as_bytes(Tail(str))

\* str::is_char_boundary(i): i is 0, the length, or the offset of a byte
\* that is not a continuation byte
is_char_boundary(bytes, i) ==
    \/ i = 0
    \/ i = Len(bytes)
    \/ i < Len(bytes) /\ bytes[i + 1] # "0xA9"

\* &s[lo..hi] panics unless lo <= hi <= len and both lie on a boundary
slice_panics(bytes, lo, hi) ==
    ~(/\ lo <= hi
      /\ hi <= Len(bytes)
      /\ is_char_boundary(bytes, lo)
      /\ is_char_boundary(bytes, hi))

\* &s[lo..hi], byte offsets
\* a slice of the same length taken from the start of the string
slice_from_start(bytes, lo, hi) == SubSeq(bytes, 1, hi - lo)

slice(bytes, lo, hi) == SubSeq(bytes, lo + 1, hi)

(***************************************************************************)
(* parse_year.                                                             *)
(***************************************************************************)
\* zero_output!()
zero_output ==
    << <<"0", "0", "0", "0", "-", "0", "0", "-", "0", "0">>,
       <<"0", "0", "0", "0", "0", "0", "0", "0">>,
       <<"0", "0", "0", "0", "0", "0", "0", "0">> >>

\* mutant of is_digit: every byte passes for a digit
is_digit_any(b) == TRUE

\* is_digit: matches!(b, ZERO..=NINE)
is_digit(b) == \E i \in 1..10 : Digits[i] = b

\* are_digits!(..)
are_digits(bs) == \A i \in 1..Len(bs) : is_digit(bs[i])

DOT == "."
DASH == "-"

\* dd.parse::<u8>() of a slice of two digits (the arm's guard lets nothing
\* else through; any other byte counts as 0 here)
parse_u8(ds) ==
    LET val(b) == IF is_digit(b) /\ b \in {Digits[i] : i \in 1..10}
                  THEN (CHOOSE i \in 1..10 : Digits[i] = b) - 1
                  ELSE 0
    IN  (val(ds[1]) * 10 + val(ds[2])) % 256

\* mutant of match_day_month: the second arm writes its numbers in the order
\* of the first arm
match_day_month_same_order(year, dd, mm) ==
    LET ddu == parse_u8(dd)
        mmu == parse_u8(mm)
        mm_dd == <<year \o <<"-">> \o mm \o <<"-">> \o dd,
                   year \o mm \o dd, year \o mm \o dd>>
    IN  IF ddu = 0 \/ mmu = 0 THEN zero_output
        ELSE IF ddu \in 1..12 /\ mmu \in 1..12 THEN mm_dd
        ELSE IF ddu \in 1..12 /\ mmu \in 1..31 THEN mm_dd
        ELSE IF ddu \in 1..31 /\ mmu \in 1..12 THEN mm_dd
        ELSE zero_output

\* match (ddu, mmu) of the dotted arm; the arms are tried in order
match_day_month(year, dd, mm) ==
    LET ddu == parse_u8(dd)
        mmu == parse_u8(mm)
        mm_dd == <<year \o <<"-">> \o mm \o <<"-">> \o dd,
                   year \o mm \o dd, year \o mm \o dd>>
        dd_mm == <<year \o <<"-">> \o dd \o <<"-">> \o mm,
                   year \o dd \o mm, year \o dd \o mm>>
    IN  IF ddu = 0 \/ mmu = 0 THEN zero_output
        ELSE IF ddu \in 1..12 /\ mmu \in 1..12 THEN mm_dd
        ELSE IF ddu \in 1..12 /\ mmu \in 1..31 THEN dd_mm
        ELSE IF ddu \in 1..31 /\ mmu \in 1..12 THEN mm_dd
        ELSE zero_output

\* which arm of match year.as_bytes() is taken
year_arm(b) ==
    IF Len(b) = 4 /\ are_digits(b) THEN "yyyy"
    ELSE IF /\ Len(b) = 9
            /\ b[5] = DASH
            /\ are_digits(SubSeq(b, 1, 4) \o SubSeq(b, 6, 9)) THEN "yyyy-yyyy"
    ELSE IF /\ Len(b) = 10
            /\ b[3] = DOT
            /\ b[6] = DOT
            /\ are_digits(SubSeq(b, 1, 2) \o SubSeq(b, 4, 5) \o SubSeq(b, 7, 10))
         THEN "dotted"
    ELSE "_"

\* parse_year hits a panicking slice
parse_year_panics(year) ==
    /\ year # None
    /\ LET b == as_bytes(year[1])
           arm == year_arm(b)
       IN  \/ /\ arm = "yyyy-yyyy"
              /\ slice_panics(b, 0, 4) \/ slice_panics(b, 5, 9)
           \/ /\ arm = "dotted"
              /\ \/ slice_panics(b, 0, 2)
                 \/ slice_panics(b, 3, 5)
                 \/ slice_panics(b, 6, 10)

\* parse_year(year: Option<&str>) -> (String, String, String)
parse_year(year) ==
    IF year = None THEN zero_output
    ELSE LET y == year[1]
             b == as_bytes(y)
             arm == year_arm(b)
             m0101 == <<"0", "1", "0", "1">>
         IN  IF arm = "yyyy"
             THEN <<y \o <<"-", "0", "1", "-", "0", "1">>,
                    y \o m0101, y \o m0101>>
             ELSE IF arm = "yyyy-yyyy"
             THEN LET year_from == slice(b, 0, 4)
                  IN  <<year_from \o <<"-", "0", "1", "-", "0", "1">>,
                        year_from \o m0101,
                        slice(b, 5, 9) \o m0101>>
             ELSE IF arm = "dotted"
             THEN match_day_month(slice(b, 6, 10), slice(b, 0, 2),
                                  slice(b, 3, 5))
             ELSE zero_output

(***************************************************************************)
(* The year strings parse_year is applied to.                              *)
(***************************************************************************)
\* largest day / month number of the dotted inputs
MaxDayMonth == 33

Pad2(n) == <<Digits[(n \div 10) + 1], Digits[(n % 10) + 1]>>

Dotted(a, b, y) == Pad2(a) \o <<".">> \o Pad2(b) \o <<".">> \o y

Y2025 == <<"2", "0", "2", "5">>

\* well-formed year strings of the three forms
YearBases ==
    { <<"1", "9", "9", "8">>,
      <<"1", "9", "9", "8", "-", "2", "0", "1", "0">>,
      Dotted(2, 2, Y2025),
      Dotted(15, 2, Y2025) }

\* characters put in the place of a character of a well-formed string
Substitutes == {"x", "U+00E9", ".", "-", "7"}

Substituted ==
    UNION { { [b EXCEPT ![i] = c] : i \in 1..Len(b), c \in Substitutes } :
            b \in YearBases }

\* strings with one character more or one less than a well-formed one
Resized ==
    { Append(b, "0") : b \in YearBases } \cup
    { SubSeq(b, 1, Len(b) - 1) : b \in YearBases }

\* the inputs of tests::denied, and the empty string
Denied ==
    { <<>>,
      <<"u", "n", "k", "n", "o", "w", "n">>,
      <<"9", "9", "9">>,
      <<"1", "0", "0", "0", "0">>,
      <<"1", "0", "0", "0", "1">>,
      <<"2", "0", "0", "0", "-", "1", "0", "0", "0", "0">>,
      <<"9", "9", "9", "-", "2", "0", "0", "0">>,
      <<"0", "6", ".", "0", "6", ".", "9", "9", "9">>,
      <<"U+00E9", "U+00E9">>,
      <<"U+00E9", "9", "9">> }

\* 4-digit years, and the ranges of two of them in either order
Years ==
    { <<"0", "0", "0", "0">>, <<"1", "9", "9", "8">>,
      <<"2", "0", "1", "0">>, <<"9", "9", "9", "9">> }

YearRanges == { y1 \o <<"-">> \o y2 : y1 \in Years, y2 \in Years }

YearStrings ==
    { Dotted(a, b, Y2025) : a \in 0..MaxDayMonth, b \in 0..MaxDayMonth }
    \cup YearBases \cup Substituted \cup Resized \cup Denied
    \cup Years \cup YearRanges

YearInputs == {None} \cup { Some(y) : y \in YearStrings }

(***************************************************************************)
(* process_sentence (main.rs, the function korp_mono/file.rs imports as    *)
(* crate::process_sentence).  A text is a sequence of pieces: a tab, a     *)
(* newline, or a piece of a field.                                         *)
(***************************************************************************)
TAB == "\t"
NL == "\n"

\* mutant of replace: only the first match is replaced (replacen(.., 1))
RECURSIVE replace_first(_, _, _)
replace_first(str, from, to) ==
    IF str = <<>> THEN <<>>
    ELSE IF Head(str) = from THEN <<to>> \o Tail(str)
    ELSE <<Head(str)>> \o replace_first(Tail(str), from, to)

\* str::replace for a one-character pattern: every match, left to right
RECURSIVE replace(_, _, _)
replace(str, from, to) ==
    IF str = <<>> THEN <<>>
    ELSE (IF Head(str) = from THEN <<to>> ELSE <<Head(str)>>)
         \o replace(Tail(str), from, to)

\* Itertools::join / [&str]::join
RECURSIVE str_join(_, _)
str_join(strs, sep) ==
    IF strs = <<>> THEN <<>>
    ELSE IF Len(strs) = 1 THEN <<strs[1]>>
    ELSE <<strs[1], sep>> \o str_join(Tail(strs), sep)

\* word.tokens.iter().map(|token| token.word_form).join("")
RECURSIVE word_form(_)
word_form(tokens) ==
    IF tokens = <<>> THEN <<>>
    ELSE Head(tokens).word_form \o word_form(Tail(tokens))

\* the locals of the loop body before the analyses are looked at
locals0 ==
    [lemma |-> <<>>, pos |-> <<"___">>, self_id |-> 0, parent_id |-> 0,
     function_label |-> <<"X">>,
     morpho_syntactic_description |-> <<"___">>]

\* the body of "for analysis in token.analyses.0.iter()"
visit_analysis(locals, candidate) ==
    IF candidate.analysis = None THEN locals
    ELSE LET analysis == candidate.analysis[1] IN
         [lemma |-> <<analysis.lemma>>,
          pos |-> <<analysis.pos>>,
          self_id |-> IF analysis.deprel = None THEN locals.self_id
                      ELSE analysis.deprel[1][1],
          parent_id |-> IF analysis.deprel = None THEN locals.parent_id
                        ELSE analysis.deprel[1][2],
          function_label |->
              IF analysis.func = None THEN locals.function_label
              ELSE replace(replace(analysis.func[1], ">", "U+2192"), "<", "U+2190"),
          morpho_syntactic_description |-> str_join(analysis.tags, ".")]

RECURSIVE visit_analyses(_, _)
visit_analyses(locals, analyses) ==
    IF analyses = <<>> THEN locals
    ELSE visit_analyses(visit_analysis(locals, Head(analyses)), Tail(analyses))

\* "for token in word.tokens.iter()": the locals live across the tokens
RECURSIVE visit_tokens(_, _)
visit_tokens(locals, tokens) ==
    IF tokens = <<>> THEN locals
    ELSE visit_tokens(visit_analyses(locals, Head(tokens).analyses),
                      Tail(tokens))

\* write!(s, "{}\t{}\t{}\t{}\t{}\t{}\t{}\n", ..)
write_line(form, locals) ==
    form \o <<TAB>> \o locals.lemma \o <<TAB>> \o locals.pos \o <<TAB>>
    \o locals.morpho_syntactic_description \o <<TAB>>
    \o <<ToString(locals.self_id)>> \o <<TAB>>
    \o locals.function_label \o <<TAB>>
    \o <<ToString(locals.parent_id)>> \o <<NL>>

\* one turn of "for word in &sentence.words": analysis_ok is true, the line
\* is written, then s.push_str(&word_form)
process_word(word) ==
    LET form == word_form(word.tokens)
        locals == visit_tokens(locals0, word.tokens)
    IN  write_line(form, locals) \o form

RECURSIVE process_words(_)
process_words(words) ==
    IF words = <<>> THEN <<>>
    ELSE process_word(Head(words)) \o process_words(Tail(words))

\* pub fn process_sentence(sentence) -> String
process_sentence(sentence) == process_words(sentence.words)

(***************************************************************************)
(* The sentences process_sentence is applied to.                           *)
(***************************************************************************)
\* most words of a sentence
MaxWords == 2
\* most candidate analyses of a token
MaxAnalyses == 2

\* analyses as fst_analysis_parser hands them over
Analyses ==
    { [lemma |-> "vuokna", pos |-> "N",
       tags |-> <<"N", "Sem/Body", "Sg", "Acc">>,
       func |-> Some(<<"@", "-F", "SUBJ", ">">>),
       deprel |-> Some(<<8, 9>>)],
      [lemma |-> "aigi", pos |-> "A",
       tags |-> <<"<mv>", "Err/Orth-a-a", "Cmp">>,
       func |-> None,
       deprel |-> None],
      [lemma |-> "duodastit", pos |-> "V",
       tags |-> <<"IV", "PrfPrc">>,
       func |-> Some(<<">", "A", "<", ">">>),
       deprel |-> Some(<<6, 2>>)] }

\* a candidate of a token: with an analysis, or without one
Candidates == {[analysis |-> None]} \cup {[analysis |-> Some(a)] : a \in Analyses}

SeqsUpTo(S, n) == UNION {[1..k -> S] : k \in 0..n}

CandidateLists == SeqsUpTo(Candidates, MaxAnalyses)

\* second tokens of a word that is realized by two tokens
SecondTokens ==
    { [word_form |-> <<"vuona">>,
       analyses |-> <<[analysis |-> Some(
           [lemma |-> "aigi", pos |-> "A",
            tags |-> <<"<mv>", "Err/Orth-a-a", "Cmp">>,
            func |-> None, deprel |-> None])]>>] }

FirstTokens == {[word_form |-> <<"vejolas">>, analyses |-> c] : c \in CandidateLists}

Words ==
    {[tokens |-> <<t>>] : t \in FirstTokens} \cup
    {[tokens |-> <<t, u>>] : t \in FirstTokens, u \in SecondTokens}

\* words that stand before the last word of a sentence: one with an
\* analysis, one without any
FillerWords ==
    { [tokens |-> <<[word_form |-> <<"da">>,
                     analyses |-> <<[analysis |-> Some(
                         [lemma |-> "da", pos |-> "CC", tags |-> <<"CC">>,
                          func |-> Some(<<"@", "CNP">>),
                          deprel |-> Some(<<2, 1>>)])]>>]>>],
      [tokens |-> <<[word_form |-> <<"saami">>, analyses |-> <<>>]>>] }

\* the empty sentence, and sentences of up to MaxWords words that end with
\* any of the words above
Sentences ==
    {[words |-> <<>>]} \cup
    {[words |-> Append(ws, w)] :
        ws \in SeqsUpTo(FillerWords, MaxWords - 1), w \in Words}

(***************************************************************************)
(* From<ParsedAnalysedDocument> for KorpMonoXmlFile.                       *)
(***************************************************************************)
\* mutant of gt_domain: a code outside the table leaves the attribute out
gt_domain_or_none(genre) ==
    IF genre = None THEN Some("")
    ELSE LET code == genre[1] IN
         CASE code \in {"admin", "administration"} -> Some("administration")
           [] code = "bible" -> Some("bible")
           [] code = "facta" -> Some("facts")
           [] code = "ficti" -> Some("fiction")
           [] code = "literature" -> Some("fiction")
           [] code = "law" -> Some("law")
           [] code = "laws" -> Some("law")
           [] code = "news" -> Some("news")
           [] code = "science" -> Some("science")
           [] code = "blogs" -> Some("blog")
           [] code = "wikipedia" -> Some("wikipedia")
           [] OTHER -> None

\* let gt_domain = match doc.header.genre { .. }
gt_domain(genre) ==
    IF genre = None THEN Some("")
    ELSE LET code == genre[1] IN
         CASE code \in {"admin", "administration"} -> Some("administration")
           [] code = "bible" -> Some("bible")
           [] code = "facta" -> Some("facts")
           [] code = "ficti" -> Some("fiction")
           [] code = "literature" -> Some("fiction")
           [] code = "law" -> Some("law")
           [] code = "laws" -> Some("law")
           [] code = "news" -> Some("news")
           [] code = "science" -> Some("science")
           [] code = "blogs" -> Some("blog")
           [] code = "wikipedia" -> Some("wikipedia")
           [] OTHER -> Some("")

\* authors.first().expect(..) panics on an empty vector
authors_panics(authors) == authors # None /\ authors[1] = <<>>

\* let (first_name, last_name, nationality) = match doc.header.authors { .. }
author_fields(authors) ==
    IF authors = None THEN <<Some(""), Some(""), Some("")>>
    ELSE LET person == authors[1][1]
             or_empty(field) == IF field = None THEN Some("") ELSE field
         IN  <<or_empty(person.firstname), or_empty(person.lastname),
               or_empty(person.nationality)>>

\* vec.iter().map(process_sentence).enumerate().map(|(i, string)|
\* Sentence::new(format!("{i}"), ..)).collect(); None => vec![]
sentences_of(sentences) ==
    IF sentences = None THEN <<>>
    ELSE LET vec == sentences[1] IN
         [k \in 1..Len(vec) |->
             [id |-> ToString(k - 1), text |-> process_sentence(vec[k])]]

\* fn from(doc: ParsedAnalysedDocument) -> KorpMonoXmlFile panics
from_panics(doc) == authors_panics(doc.header.authors)

\* fn from(doc: ParsedAnalysedDocument) -> KorpMonoXmlFile: the Text built
\* (title, lang and orig_lang are copied from the document and left out)
from(doc) ==
    LET names == author_fields(doc.header.authors)
        dates == parse_year(doc.header.year)
    IN  [first_name |-> names[1],
         last_name |-> names[2],
         nationality |-> names[3],
         gt_domain |-> gt_domain(doc.header.genre),
         date |-> Some(dates[1]),
         datefrom |-> Some(dates[2]),
         dateto |-> Some(dates[3]),
         timefrom |-> Some("000000"),
         timeto |-> Some("235959"),
         sentences |-> sentences_of(doc.body.sentences)]

(***************************************************************************)
(* The documents From is applied to.                                       *)
(***************************************************************************)
\* most sentences of a document
MaxSentences == 2

\* the codes of the table, and codes outside it
GenreCodes ==
    {"admin", "administration", "bible", "facta", "ficti", "literature",
     "law", "laws", "news", "science", "blogs", "wikipedia"}
OtherCodes == {"", "Facta", "fiction", "blog", "facts"}

Genres == {None} \cup {Some(c) : c \in GenreCodes \cup OtherCodes}

Persons ==
    [firstname : {None, Some("Marko")},
     lastname : {None, Some("Jouste")},
     nationality : {None, Some("FI")}]

SecondPerson ==
    [firstname |-> Some("Anders"), lastname |-> Some("Lorentsen"),
     nationality |-> Some("NO")]

\* the values of Option<Vec<Person>>
AuthorLists ==
    {None, Some(<<>>)} \cup {Some(<<p>>) : p \in Persons}
    \cup {Some(<<p, SecondPerson>>) : p \in Persons}

DocSentences ==
    { [words |-> <<>>],
      [words |-> <<[tokens |-> <<[word_form |-> <<"da">>,
                                  analyses |-> <<>>]>>]>>] }

Docs ==
    [header : [genre : Genres,
               authors : AuthorLists,
               year : {None, Some(<<"2", "0", "1", "8">>)}],
     body : [sentences :
                {None} \cup {Some(v) : v \in SeqsUpTo(DocSentences, MaxSentences)}]]

(***************************************************************************)
(* The paths KorpMonoPath::from is applied to: main gives collect_files    *)
(* the input directory whether or not AnalysedFilePath::try_from accepted  *)
(* it, and every file below it that ends with ".xml" is wrapped unchecked. *)
(***************************************************************************)
\* deepest nesting of directories below the input directory
MaxDepth == 2

\* input directories: the analysed directory of a corpus, and the corpus
\* directory itself (try_from rejects it, main prints and goes on)
InputDirs == { <<"corpus-abc", "analysed">>, <<"corpus-abc">> }

\* names of the directories below the input directory
DirNames == {"analysed", "korp_mono", "d1"}

\* the files WalkDir can find below input_dir
Discovered(input_dir) ==
    { [components |-> input_dir \o sub, stem |-> "a", extension |-> "xml"] :
          sub \in SeqsUpTo(DirNames, MaxDepth) }

\* an input directory and two distinct files found below it
PathInputs ==
    UNION { { [input_dir |-> d, files |-> pq] :
                  pq \in { w \in Discovered(d) \X Discovered(d) :
                               w[1] # w[2] } } :
            d \in InputDirs }

\* what the persist stage and the log loop derive for each of the files
derive_paths(files) ==
    [output_path |-> [k \in 1..Len(files) |-> KorpMonoPath(files[k])],
     log_path |-> [k \in 1..Len(files) |-> LogPath(files[k])]]

(***************************************************************************)
(* AnalysedFilePath::try_from (analysed/path.rs).  Here a path is the      *)
(* sequence of its components and a component the sequence of its chars.   *)
(***************************************************************************)
LowerCase ==
    <<"a", "b", "c", "d", "e", "f", "g", "h", "i", "j", "k", "l", "m",
      "n", "o", "p", "q", "r", "s", "t", "u", "v", "w", "x", "y", "z">>

\* the pattern 'a'..'z': the range excludes its end
in_a_to_z(ch) == \E i \in 1..(Len(LowerCase) - 1) : LowerCase[i] = ch

\* length of the array is_corpus_dir copies the chars of a component into
ArrLen == 10

\* arr[i] = ch indexes past the end of arr
is_corpus_dir_panics(component) == Len(component) > ArrLen

is_corpus_dir(component) ==
    LET arr == [i \in 1..ArrLen |->
                   IF i <= Len(component) THEN component[i] ELSE "NUL"]
    IN  /\ SubSeq(arr, 1, 7) = <<"c", "o", "r", "p", "u", "s", "-">>
        /\ \A i \in 8..ArrLen : in_a_to_z(arr[i])

ANALYSED == <<"a", "n", "a", "l", "y", "s", "e", "d">>

\* the loop of is_analysed_corpus_dir from component i on:
\* "true", "false", or "panic" when is_corpus_dir panics
RECURSIVE scan_components(_, _, _)
scan_components(path, i, prev_is_corpus_dir) ==
    IF i > Len(path) THEN "false"
    ELSE IF is_corpus_dir_panics(path[i]) THEN "panic"
    ELSE IF is_corpus_dir(path[i]) THEN scan_components(path, i + 1, TRUE)
    ELSE IF path[i] = ANALYSED /\ prev_is_corpus_dir THEN "true"
    ELSE scan_components(path, i + 1, prev_is_corpus_dir)

is_analysed_corpus_dir(path) == scan_components(path, 1, FALSE)

\* TryFrom<&PathBuf> for AnalysedFilePath, where it returns
AnalysedFilePath_try_from(value) ==
    IF is_analysed_corpus_dir(value) = "true"
    THEN [is_ok |-> TRUE, inner |-> value]
    ELSE [is_ok |-> FALSE, inner |-> <<>>]

\* most components of a path given to try_from
MaxComponents == 3

\* components of the paths given to try_from
Components ==
    { <<"c", "o", "r", "p", "u", "s", "-", "a", "b", "c">>,
      <<"c", "o", "r", "p", "u", "s", "-", "x", "y", "z">>,
      <<"c", "o", "r", "p", "u", "s", "-", "a", "b">>,
      <<"c", "o", "r", "p", "u", "s", "-", "a", "B", "c">>,
      <<"c", "o", "r", "p", "u", "s", "-", "a", "b", "c", "d">>,
      ANALYSED,
      <<"h", "o", "m", "e">>,
      <<"d", "o", "c", "u", "m", "e", "n", "t", "s", "_", "2", "4">> }

PathBufs == SeqsUpTo(Components, MaxComponents)

(***************************************************************************)
(* The functions applied on their own, each to one of its inputs.          *)
(***************************************************************************)
FnArgs ==
    [fn : {"parse_year"}, input : YearInputs] \cup
    [fn : {"process_sentence"}, input : Sentences] \cup
    [fn : {"from"}, input : Docs] \cup
    [fn : {"KorpMonoPath"}, input : PathInputs] \cup
    [fn : {"try_from"}, input : PathBufs]

FnInit ==
    /\ InitRun
    /\ pool = 1
    /\ fcall \in [call : {"pending"}, arg : FnArgs, ret : {<<>>}]

call_parse_year ==
    /\ call = "pending"
    /\ arg.fn = "parse_year"
    /\ fcall' = IF parse_year_panics(arg.input)
                THEN [fcall EXCEPT !.call = "panicked"]
                ELSE [fcall EXCEPT !.call = "returned",
                                   !.ret = parse_year(arg.input)]
    /\ UNCHANGED runvars

call_process_sentence ==
    /\ call = "pending"
    /\ arg.fn = "process_sentence"
    /\ fcall' = [fcall EXCEPT !.call = "returned",
                              !.ret = process_sentence(arg.input)]
    /\ UNCHANGED runvars

call_from ==
    /\ call = "pending"
    /\ arg.fn = "from"
    /\ fcall' = IF from_panics(arg.input)
                THEN [fcall EXCEPT !.call = "panicked"]
                ELSE [fcall EXCEPT !.call = "returned",
                                   !.ret = from(arg.input)]
    /\ UNCHANGED runvars

call_KorpMonoPath ==
    /\ call = "pending"
    /\ arg.fn = "KorpMonoPath"
    /\ fcall' = [fcall EXCEPT !.call = "returned",
                              !.ret = derive_paths(arg.input.files)]
    /\ UNCHANGED runvars

call_try_from ==
    /\ call = "pending"
    /\ arg.fn = "try_from"
    /\ fcall' = IF is_analysed_corpus_dir(arg.input) = "panic"
                THEN [fcall EXCEPT !.call = "panicked"]
                ELSE [fcall EXCEPT !.call = "returned",
                                   !.ret = AnalysedFilePath_try_from(arg.input)]
    /\ UNCHANGED runvars

FnNext ==
    \/ call_parse_year
    \/ call_process_sentence
    \/ call_from
    \/ call_KorpMonoPath
    \/ call_try_from

FnSpec == FnInit /\ [][FnNext]_vars

(***************************************************************************)
(* Reading a sentence text back: lines and tab-separated fields.           *)
(***************************************************************************)
\* str::split(sep): the pieces between the separators
RECURSIVE split(_, _)
split(text, sep) ==
    IF \A i \in 1..Len(text) : text[i] # sep THEN <<text>>
    ELSE LET i == CHOOSE j \in 1..Len(text) :
                      /\ text[j] = sep
                      /\ \A k \in 1..(j - 1) : text[k] # sep
         IN  <<SubSeq(text, 1, i - 1)>>
             \o split(SubSeq(text, i + 1, Len(text)), sep)

\* the lines of a text, each closed by a newline
TextLines(text) ==
    LET pieces == split(text, NL) IN SubSeq(pieces, 1, Len(pieces) - 1)

\* what follows the last newline of a text
Trailing(text) == LET pieces == split(text, NL) IN pieces[Len(pieces)]

Fields(line) == split(line, TAB)

RECURSIVE Flatten(_)
Flatten(seqs) ==
    IF seqs = <<>> THEN <<>> ELSE Head(seqs) \o Flatten(Tail(seqs))

\* the tokens of a sentence in document order
Tokens(sentence) ==
    Flatten([k \in 1..Len(sentence.words) |-> sentence.words[k].tokens])

CarriesAnalysis(candidate) == candidate.analysis # None

\* the analyses a sequence of candidates carries, in their order
Carried(candidates) ==
    LET cs == SelectSeq(candidates, CarriesAnalysis)
    IN  [k \in 1..Len(cs) |-> cs[k].analysis[1]]

\* the candidates of a word: those of its tokens, in order
WordCandidates(word) ==
    Flatten([k \in 1..Len(word.tokens) |-> word.tokens[k].analyses])

\* a token has a lemma when one of its candidates carries an analysis
HasLemma(token) == Carried(token.analyses) # <<>>

Last(seq) == seq[Len(seq)]

\* every '>' turned into a right arrow and every '<' into a left arrow
Arrows(label) ==
    [i \in 1..Len(label) |->
        CASE label[i] = ">" -> "U+2192"
          [] label[i] = "<" -> "U+2190"
          [] OTHER -> label[i]]

HasFunc(analysis) == analysis.func # None
HasDeprel(analysis) == analysis.deprel # None

\* the fields pos, self-id, function, parent-id the analyses of a token
\* leave behind when each later one overrides the earlier ones
Folded(analyses) ==
    LET fs == SelectSeq(analyses, HasFunc)
        ds == SelectSeq(analyses, HasDeprel)
    IN  [pos |-> IF analyses = <<>> THEN <<"___">> ELSE <<Last(analyses).pos>>,
         self_id |-> IF ds = <<>> THEN <<"0">>
                     ELSE <<ToString(Last(ds).deprel[1][1])>>,
         func |-> IF fs = <<>> THEN <<"X">> ELSE Arrows(Last(fs).func[1]),
         parent_id |-> IF ds = <<>> THEN <<"0">>
                       ELSE <<ToString(Last(ds).deprel[1][2])>>]

Returned(fn) == call = "returned" /\ arg.fn = fn

\* C11: for every token with a lemma, in document order, the emitted record
\* carries the part-of-speech, self-index, function label and parent-index
\* that a left fold over the token's own candidates leaves, starting from
\* "___", 0, "X", 0, and the tag string is "___" only by default.
C11_RecordIsFoldOverTokenCandidates ==
    Returned("process_sentence") =>
        LET eligible == SelectSeq(Tokens(arg.input), HasLemma)
            lines == TextLines(ret)
        IN  \A k \in 1..Len(eligible) :
                /\ k <= Len(lines)
                /\ LET f == Fields(lines[k])
                       e == Folded(Carried(eligible[k].analyses))
                   IN  /\ Len(f) >= 7
                       /\ f[3] = e.pos
                       /\ f[5] = e.self_id
                       /\ f[6] = e.func
                       /\ f[7] = e.parent_id

\* C12: the text holds exactly one line per token that has a lemma, in
\* document order, each with the lemma of its token, and no line for a
\* token without a lemma.
C12_OneRecordPerTokenWithLemma ==
    Returned("process_sentence") =>
        LET eligible == SelectSeq(Tokens(arg.input), HasLemma)
            lines == TextLines(ret)
        IN  /\ Len(lines) = Len(eligible)
            /\ \A k \in 1..Len(eligible) :
                   LET f == Fields(lines[k])
                   IN  /\ Len(f) >= 2
                       /\ f[2] = <<Last(Carried(eligible[k].analyses)).lemma>>

\* the word forms of a sentence: of its tokens and of its whole words
WordForms(sentence) ==
    {Tokens(sentence)[k].word_form : k \in 1..Len(Tokens(sentence))} \cup
    {word_form(sentence.words[k].tokens) : k \in 1..Len(sentence.words)}

\* C13: the text of a sentence is made of record lines only: every line has
\* exactly seven tab-separated fields and starts with a word form of the
\* sentence, and nothing follows the last line.
C13_BodyTextIsRecordLinesOnly ==
    Returned("process_sentence") =>
        /\ Trailing(ret) = <<>>
        /\ \A k \in 1..Len(TextLines(ret)) :
               LET f == Fields(TextLines(ret)[k])
               IN  /\ Len(f) = 7
                   /\ f[1] \in WordForms(arg.input)

\* Tag::is_sem, Tag::is_angle_bracketed, Tag::is_err_starts_with("Orth")
is_sem(tag) == tag \in {"Sem/Body"}
is_angle_bracketed(tag) == tag \in {"<mv>"}
is_err_starts_with_Orth(tag) == tag \in {"Err/Orth-a-a"}

Kept(tag) ==
    ~is_sem(tag) /\ ~is_angle_bracketed(tag) /\ ~is_err_starts_with_Orth(tag)

\* C14: the tag string of every emitted record holds no semantic tag, no
\* angle-bracketed tag and no orthography-error tag, and is the dot-joined
\* sequence of the remaining tags of its analysis in their order.
C14_ExcludedTagsNeverEmitted ==
    Returned("process_sentence") =>
        \A k \in 1..Len(TextLines(ret)) :
            LET f == Fields(TextLines(ret)[k])
                analyses == Carried(WordCandidates(arg.input.words[k]))
            IN  /\ \A i \in 1..Len(f[4]) : f[4][i] = "." \/ Kept(f[4][i])
                /\ analyses # <<>> =>
                       f[4] = str_join(SelectSeq(Last(analyses).tags, Kept), ".")

\* C15: when an analysis gave the function label of a record, the emitted
\* label is the raw label with every '>' replaced by the right arrow and
\* every '<' by the left arrow, and holds neither '<' nor '>'.
C15_FunctionLabelArrows ==
    Returned("process_sentence") =>
        \A k \in 1..Len(arg.input.words) :
            LET labelled == SelectSeq(Carried(WordCandidates(arg.input.words[k])),
                                      HasFunc)
            IN  labelled # <<>> =>
                    /\ k <= Len(TextLines(ret))
                    /\ LET f == Fields(TextLines(ret)[k])
                       IN  /\ Len(f) = 7
                           /\ f[6] = Arrows(Last(labelled).func[1])
                           /\ \A i \in 1..Len(f[6]) : f[6][i] \notin {"<", ">"}

\* a label with both brackets, one of them twice, has been emitted
C15_Witness ==
    /\ Returned("process_sentence")
    /\ \E k \in 1..Len(TextLines(ret)) :
           Fields(TextLines(ret)[k])[6] = <<"U+2192", "A", "U+2190", "U+2192">>

\* C16: the sentences of an output document carry the ids 1, 2, .., n in
\* their order.
C16_SentenceIdsStartAtOne ==
    Returned("from") =>
        \A k \in 1..Len(ret.sentences) : ret.sentences[k].id = ToString(k)

C18_DomainTagIsTotal ==
    Returned("from") =>
        LET genre == arg.input.header.genre IN
        /\ ret.gt_domain # None
        /\ genre = Some("facta") => ret.gt_domain = Some("facts")
        /\ genre = Some("news") => ret.gt_domain = Some("news")
        /\ genre = Some("wikipedia") => ret.gt_domain = Some("wikipedia")
        /\ (genre # None /\ genre[1] \in GenreCodes) => ret.gt_domain # Some("")
        /\ (genre = None \/ genre[1] \notin GenreCodes) => ret.gt_domain = Some("")

\* a code outside the table has been mapped to the empty string
C18_Witness ==
    /\ Returned("from")
    /\ arg.input.header.genre = Some("Facta")
    /\ ret.gt_domain = Some("")

IsDigitChar(ch) == ch \in {Digits[i] : i \in 1..10}

\* the number a string of digits writes
RECURSIVE Number(_)
Number(ds) ==
    IF ds = <<>> THEN 0
    ELSE Number(SubSeq(ds, 1, Len(ds) - 1)) * 10
         + ((CHOOSE i \in 1..10 : Digits[i] = Last(ds)) - 1)

\* a 10-character string of the shape DD.MM.YYYY
IsDottedShape(str) ==
    /\ Len(str) = 10
    /\ str[3] = "."
    /\ str[6] = "."
    /\ \A i \in {1, 2, 4, 5, 7, 8, 9, 10} : IsDigitChar(str[i])

\* the triple of a single date
SingleDate(yyyy, month, day) ==
    << yyyy \o <<"-">> \o Pad2(month) \o <<"-">> \o Pad2(day),
       yyyy \o Pad2(month) \o Pad2(day),
       yyyy \o Pad2(month) \o Pad2(day) >>

\* C19: for a DD.MM.YYYY-shaped input with leading numbers A and B: a zero
\* gives the sentinel; both in 1..12: A is the day, B the month; A in 1..12
\* and B in 1..31: A is the month, B the day; A in 1..31 and B in 1..12: A is
\* the day, B the month; else the sentinel.  A date that is not the sentinel
\* is YYYY-month-day, and both compact fields are its digits.
C19_DottedDateArms ==
    (Returned("parse_year") /\ arg.input # None /\ IsDottedShape(arg.input[1])) =>
        LET str == arg.input[1]
            A == Number(SubSeq(str, 1, 2))
            B == Number(SubSeq(str, 4, 5))
            yyyy == SubSeq(str, 7, 10)
        IN  ret = IF A = 0 \/ B = 0 THEN zero_output
                  ELSE IF A \in 1..12 /\ B \in 1..12 THEN SingleDate(yyyy, B, A)
                  ELSE IF A \in 1..12 /\ B \in 1..31 THEN SingleDate(yyyy, A, B)
                  ELSE IF A \in 1..31 /\ B \in 1..12 THEN SingleDate(yyyy, B, A)
                  ELSE zero_output

\* 02.15.2025 has been read as the 15th of February
C19_Witness ==
    /\ Returned("parse_year")
    /\ arg.input = Some(Dotted(2, 15, Y2025))
    /\ ret[1] = <<"2", "0", "2", "5", "-", "0", "2", "-", "1", "5">>
    /\ ret[2] = <<"2", "0", "2", "5", "0", "2", "1", "5">>
    /\ ret[3] = ret[2]

\* one of the three forms, with day and month in 1..31 in the dotted form
Recognized(str) ==
    \/ Len(str) = 4 /\ \A i \in 1..4 : IsDigitChar(str[i])
    \/ /\ Len(str) = 9
       /\ str[5] = "-"
       /\ \A i \in {1, 2, 3, 4, 6, 7, 8, 9} : IsDigitChar(str[i])
    \/ /\ IsDottedShape(str)
       /\ Number(SubSeq(str, 1, 2)) \in 1..31
       /\ Number(SubSeq(str, 4, 5)) \in 1..31

\* C20: parse_year fails for no input, and an absent input and every string
\* that is not of a recognized form with a day and a month in 1..31 give
\* the sentinel triple.
C20_UnrecognizedYearIsSentinel ==
    (arg.fn = "parse_year" /\ call # "pending") =>
        /\ call = "returned"
        /\ (arg.input = None \/ ~Recognized(arg.input[1])) => ret = zero_output

\* a string with a non-ASCII character in the place of a digit has given
\* the sentinel
C20_Witness ==
    /\ Returned("parse_year")
    /\ arg.input = Some(<<"1", "9", "U+00E9", "8">>)
    /\ ret = zero_output

\* the triple of a year: Y-01-01, Y0101 and the end year followed by 0101
YearTriple(Y1, Y2) ==
    << Y1 \o <<"-", "0", "1", "-", "0", "1">>,
       Y1 \o <<"0", "1", "0", "1">>,
       Y2 \o <<"0", "1", "0", "1">> >>

\* C21: every string Y of 4 digits gives (Y-01-01, Y0101, Y0101), and every
\* string Y1-Y2 of two 4-digit years gives (Y1-01-01, Y1 followed by 0101,
\* Y2 followed by 0101), whatever the order of Y1 and Y2.
C21_YearAndRangeTriples ==
    (Returned("parse_year") /\ arg.input # None) =>
        LET str == arg.input[1] IN
        /\ (Len(str) = 4 /\ \A i \in 1..4 : IsDigitChar(str[i])) =>
               ret = YearTriple(str, str)
        /\ (/\ Len(str) = 9
            /\ str[5] = "-"
            /\ \A i \in {1, 2, 3, 4, 6, 7, 8, 9} : IsDigitChar(str[i])) =>
               ret = YearTriple(SubSeq(str, 1, 4), SubSeq(str, 6, 9))

\* the range 2010-1998, whose first year is the later one, has given
\* 2010-01-01, 20100101 and 19980101
C21_Witness ==
    /\ Returned("parse_year")
    /\ arg.input = Some(<<"2", "0", "1", "0", "-", "1", "9", "9", "8">>)
    /\ ret = << <<"2", "0", "1", "0", "-", "0", "1", "-", "0", "1">>,
                <<"2", "0", "1", "0", "0", "1", "0", "1">>,
                <<"1", "9", "9", "8", "0", "1", "0", "1">> >>

\* the positions at which two sequences of the same length differ
Differ(a, b) == {i \in 1..Len(a) : a[i] # b[i]}

\* C22: the output path has the segments of the input path in the same
\* order except for exactly one, an analysed segment, which has become
\* korp_mono; the file name is kept; and the second derivation (the one the
\* log path is made from) gives the same path.
C22_ExactlyOneSegmentReplaced ==
    Returned("KorpMonoPath") =>
        \A k \in 1..Len(arg.input.files) :
            LET inp == arg.input.files[k]
                out == ret.output_path[k]
            IN  /\ Len(out.components) = Len(inp.components)
                /\ \E i \in 1..Len(inp.components) :
                       /\ Differ(inp.components, out.components) = {i}
                       /\ inp.components[i] = "analysed"
                       /\ out.components[i] = "korp_mono"
                /\ out.stem = inp.stem
                /\ out.extension = inp.extension
                /\ ret.log_path[k] = [out EXCEPT !.extension = "log"]

\* C23: two distinct files found below the input directory derive distinct
\* output paths and distinct log paths.
C23_DerivationIsInjective ==
    Returned("KorpMonoPath") =>
        \A j, k \in 1..Len(arg.input.files) :
            arg.input.files[j] # arg.input.files[k] =>
                /\ ret.output_path[j] # ret.output_path[k]
                /\ ret.log_path[j] # ret.log_path[k]

\* corpus- followed by exactly three lowercase letters, a through z
IsCorpusSegment(seg) ==
    /\ Len(seg) = 10
    /\ SubSeq(seg, 1, 7) = <<"c", "o", "r", "p", "u", "s", "-">>
    /\ \A i \in 8..10 : \E n \in 1..Len(LowerCase) : LowerCase[n] = seg[i]

\* C24: try_from fails for no path, and returns Ok exactly when the path has
\* a corpus-xxx segment and, later, a segment named analysed.
C24_CheckedConstruction ==
    (arg.fn = "try_from" /\ call # "pending") =>
        /\ call = "returned"
        /\ ret.is_ok <=>
               \E i, j \in 1..Len(arg.input) :
                   /\ i < j
                   /\ IsCorpusSegment(arg.input[i])
                   /\ arg.input[j] = ANALYSED

\* a message at which the collector increments nok or nerr
Counts(msg) ==
    \/ msg.kind = "ParseAnalyses"
    \/ msg.kind \in {"Read", "ParseXml"} /\ msg.result = "Err"

\* how many times the collector has incremented a counter for file p: the
\* counting messages of p that were sent and are no longer in the queue
Increments(p) ==
    Cardinality({i \in 1..Len(sent[p]) : Counts(sent[p][i])})
    - Cardinality({i \in 1..Len(chan) : chan[i].path = p /\ Counts(chan[i])})

\* C25: every file increments a counter at most once, nok + nerr is the
\* number of files that have done so, hence at most nfiles, and it is nfiles
\* when the collector has returned.
C25_EachFileCountedOnce ==
    /\ \A p \in Files : Increments(p) \in {0, 1}
    /\ nok + nerr = Cardinality({p \in Files : Increments(p) = 1})
    /\ nok + nerr <= nfiles
    /\ collector = "returned" => nok + nerr = nfiles

\* the collector has returned after counting one file as failed and
\* another as succeeded, each of them once
C25_Witness ==
    /\ collector = "returned"
    /\ nerr >= 1
    /\ nok >= 1
    /\ nok + nerr = nfiles
    /\ \A p \in Files : Increments(p) = 1

====
